---- MODULE Spec2Model ----
(***************************************************************************)
(* A model of AlertBuddy's notification relay (src/main.py): the ingest    *)
(* handler receive_notification, the WebSocket handler alerts_ws, the      *)
(* in-memory registry active_connections with its lock, and the            *)
(* notifications collection with its delivered flag.                       *)
(*                                                                         *)
(* Every await of the source is one step of the model; the code between    *)
(* two awaits runs without interleaving (one asyncio event loop).          *)
(***************************************************************************)
EXTENDS Integers, Sequences, FiniteSets, TLC

\* ------------------------------------------------------------- bounds
\* ingest requests and websocket connections the environment may issue
NumIngest == 2
NumChan == 2
\* requests and connections issued in one run, together
MaxTasks == 3
\* the clock stops ticking here
MaxTime == 1

Ingests == 1..NumIngest
Chans == 1..NumChan

\* ------------------------------------------------------------- inputs
\* data.get("puuid") of a request that carries none
NoPuuid == "none"
\* the identifiers db.users knows, and one it does not
Users == {"u1", "u2"}
Puuids == Users \cup {"ux"}

\* A title is the list title.split(" ") of its words. The word "INR50" stands
\* for a word holding the rupee glyph; no other word of the vocabulary does.
MarkerWords == {"INR50"}
Titles == { <<"john", "paid", "you", "INR50">>, <<"Hello">> }

\* no deliveredAt field in the document
Unset == -1
\* connections_lock not held
Free == <<>>

\* Mutation of LockAfterBlock: the block does not release the lock, the task
\* carries it into its next await
LockAfterBlock_Held(task) == task

\* Lock.acquire() of a free asyncio.Lock returns without suspending, and no
\* "async with connections_lock" block holds an await: each block runs as one
\* step, which finds the lock free and leaves it in the state given here
\* (the end of the with block releases it).
LockAfterBlock(task) == Free

VARIABLES
    now,                 \* int(time.time())
    notifications,       \* db.notifications, in insertion order; _id = position
    active_connections,  \* puuid -> list of websockets
    connections_lock,    \* Free, or the task inside "async with connections_lock"
    ing,                 \* the receive_notification tasks: locals and position
    ch,                  \* the alerts_ws tasks: locals and position
    inbox                \* per websocket, the payloads send_json delivered to it

vars == <<now, notifications, active_connections, connections_lock, ing, ch, inbox>>

\* ------------------------------------------------------------- helpers
Range(s) == {s[k] : k \in 1..Len(s)}

RECURSIVE RemoveFirst(_, _)
RemoveFirst(s, x) ==
    IF s = <<>> THEN <<>>
    ELSE IF Head(s) = x THEN Tail(s)
    ELSE <<Head(s)>> \o RemoveFirst(Tail(s), x)

\* Mutation of HasMarker: the title filter is lost, every title passes
HasMarker_Always(title) == TRUE

\* "₹" in title
HasMarker(title) == \E k \in 1..Len(title) : title[k] \in MarkerWords

\* w.capitalize(): first character upper case, the rest lower case
Capitalize(w) ==
    CASE w = "john" -> "John"
      [] w = "paid" -> "Paid"
      [] w = "you" -> "You"
      [] w = "Hello" -> "Hello"
      [] OTHER -> w

\* .replace("paid you", "donated").replace("Paid You", "donated") on the
\* words re-joined by single spaces
RECURSIVE ReplacePhrase(_, _, _, _)
ReplacePhrase(ws, a, b, by) ==
    IF Len(ws) < 2 THEN ws
    ELSE IF ws[1] = a /\ ws[2] = b
         THEN <<by>> \o ReplacePhrase(SubSeq(ws, 3, Len(ws)), a, b, by)
         ELSE <<ws[1]>> \o ReplacePhrase(Tail(ws), a, b, by)

ProcessedTitle(title) ==
    LET cap == [k \in 1..Len(title) |-> Capitalize(title[k])]
    IN  ReplacePhrase(ReplacePhrase(cap, "paid", "you", "donated"),
                      "Paid", "You", "donated")

Payload(puuid, title) == [puuid |-> puuid, title |-> ProcessedTitle(title)]

\* doc = {"puuid", "notification", "delivered": False, "createdAt"}
NewDoc(puuid, payload, t) ==
    [puuid |-> puuid, notification |-> payload, delivered |-> FALSE,
     createdAt |-> t, deliveredAt |-> Unset]

\* db.users.find_one({"puuid": puuid})
FindUser(puuid) == puuid \in Users

\* db.notifications.insert_one(doc)
InsertOne(notifs, doc) == Append(notifs, doc)

\* Mutation of MarkDelivered: the update sets the flag and forgets deliveredAt
MarkDelivered_FlagOnly(notifs, id, t) ==
    IF id \in 1..Len(notifs)
    THEN [notifs EXCEPT ![id].delivered = TRUE]
    ELSE notifs

\* update_one({"_id": id}, {"$set": {"delivered": True, "deliveredAt": now}})
MarkDelivered(notifs, id, t) ==
    IF id \in 1..Len(notifs)
    THEN [notifs EXCEPT ![id].delivered = TRUE, ![id].deliveredAt = t]
    ELSE notifs

\* The ids find({"puuid", "delivered": False}) matches
Undelivered(notifs, puuid) ==
    {id \in 1..Len(notifs) : notifs[id].puuid = puuid /\ ~notifs[id].delivered}

\* .sort("createdAt", 1): ascending in createdAt
IsSorted(notifs, s) ==
    \A j, k \in 1..Len(s) : j < k => notifs[s[j]].createdAt <= notifs[s[k]].createdAt

\* Mutation of FindUndelivered: the query without its sort
FindUndelivered_Unsorted(notifs, puuid) ==
    LET ids == Undelivered(notifs, puuid)
        n == Cardinality(ids)
    IN  {s \in [1..n -> ids] : Range(s) = ids}

\* The lists db_find_undelivered may return: every matching document once,
\* ascending in createdAt. The sort key is all the query orders by, so
\* documents of equal createdAt come back in either order.
FindUndelivered(notifs, puuid) ==
    LET ids == Undelivered(notifs, puuid)
        n == Cardinality(ids)
    IN  {s \in [1..n -> ids] : Range(s) = ids /\ IsSorted(notifs, s)}

\* Mutation of Snapshot: the ingest does not see the registered websockets,
\* its snapshot is always empty
Snapshot_Empty(conns, puuid) == <<>>

\* active_connections.get(puuid, []).copy()
Snapshot(conns, puuid) == IF puuid \in DOMAIN conns THEN conns[puuid] ELSE <<>>

\* lst = active_connections.setdefault(puuid, []); lst.append(websocket)
RegisterConn(conns, puuid, w) ==
    IF puuid \in DOMAIN conns
    THEN [conns EXCEPT ![puuid] = Append(@, w)]
    ELSE [p \in DOMAIN conns \cup {puuid} |->
            IF p = puuid THEN <<w>> ELSE conns[p]]

\* Mutation of DeregisterConn: the websocket is removed, the emptied list stays
DeregisterConn_KeepEmpty(conns, puuid, w) ==
    IF puuid \in DOMAIN conns
    THEN [conns EXCEPT ![puuid] = IF w \in Range(@) THEN RemoveFirst(@, w) ELSE @]
    ELSE conns

\* lst = get(puuid, []); remove websocket if present; pop the key if lst is empty
DeregisterConn(conns, puuid, w) ==
    LET lst == Snapshot(conns, puuid)
        rest == IF w \in Range(lst) THEN RemoveFirst(lst, w) ELSE lst
    IN  IF rest = <<>>
        THEN [p \in DOMAIN conns \ {puuid} |-> conns[p]]
        ELSE [conns EXCEPT ![puuid] = rest]

\* ------------------------------------------------------------- control flow
\* Mutation of AfterInsert: the storage error is swallowed and the broadcast
\* runs all the same
AfterInsert_Swallowed(ok) == "snapshot"

\* receive_notification after "await db_insert_notification(doc)": an
\* exception leaves the handler, otherwise the broadcast follows
AfterInsert(ok) == IF ok THEN "snapshot" ELSE "done"

\* Mutation of AfterSends: the "if delivered_any:" branch is lost, the ingest
\* returns without marking
AfterSends_NeverMark(sockets, k, delivered_any) ==
    IF k <= Len(sockets) THEN "send" ELSE "done"

\* Mutation of AfterSends: the record is marked whenever there were sockets,
\* whether or not a send succeeded
AfterSends_AlwaysMark(sockets, k, delivered_any) ==
    IF k <= Len(sockets) THEN "send"
    ELSE IF sockets # <<>> THEN "mark"
    ELSE "done"

\* Mutation of AfterSends: a failed first send leaves the loop, the sockets
\* after it get no attempt
AfterSends_AbortOnFailure(sockets, k, delivered_any) ==
    IF k > 1 /\ ~delivered_any THEN "done"
    ELSE IF k <= Len(sockets) THEN "send"
    ELSE IF delivered_any THEN "mark"
    ELSE "done"

\* "if sockets:" and the end of the for loop over sockets
AfterSends(sockets, k, delivered_any) ==
    IF k <= Len(sockets) THEN "send"
    ELSE IF delivered_any THEN "mark"
    ELSE "done"

\* Mutation of AfterLookup: the "if not user" check of the ingest is lost
AfterLookup_NoCheck(found) == "insert"

\* receive_notification after "await db_find_user_by_puuid(puuid)": 404 for
\* an unknown puuid, otherwise the document is built and inserted
AfterLookup(found) == IF found THEN "insert" ELSE "done"

\* Mutation of AfterMark: an exception of db_mark_delivered is swallowed and
\* the ingest answers "saved"
AfterMark_Swallowed(ok) == "saved"

\* The answer of receive_notification after "await db_mark_delivered(...)":
\* an exception propagates (500), otherwise {"status": "saved"}
AfterMark(ok) == IF ok THEN "saved" ELSE "storage_error"

\* Mutation of AfterValidate: close(code=4000) is sent but the "return" after
\* it is lost
AfterValidate_NoReturn(found) == "accept"

\* alerts_ws after "await db_find_user_by_puuid(puuid)": an unknown puuid is
\* closed with code 4000 and the handler returns, otherwise accept
AfterValidate(found) == IF found THEN "accept" ELSE "closed"

\* the drain loop "for notif in pending", then the keep-alive loop
AfterDrainStep(pending, idx) == IF idx <= Len(pending) THEN "drain_send" ELSE "idle"

\* Mutation of OnDrainSendError: no try/except inside the loop, the exception
\* of send_json leaves the drain for the finally block
OnDrainSendError_Propagates(pending, idx) == [pc |-> "finally", idx |-> idx]

\* Mutation of OnDrainSendError: db_mark_delivered is called whether or not
\* send_json raised
OnDrainSendError_MarkAnyway(pending, idx) == [pc |-> "drain_mark", idx |-> idx]

\* alerts_ws when send_json raises inside the drain loop: "except Exception:
\* pass" skips db_mark_delivered and the loop goes on with the next document
OnDrainSendError(pending, idx) ==
    [pc |-> AfterDrainStep(pending, idx + 1), idx |-> idx + 1]

\* Mutation of OnException: "try:" opens after the backlog load, so an
\* exception of db_find_undelivered skips the finally block
OnException_TryAfterLoad(pc) ==
    IF pc \in {"drain_send", "drain_mark", "idle", "idle_sleep"}
    THEN "finally"
    ELSE "closed"

\* Where an exception raised at position pc of alerts_ws takes the handler:
\* inside "try:" to the finally block, before it out of the handler
OnException(pc) ==
    IF pc \in {"load", "drain_send", "drain_mark", "idle", "idle_sleep"}
    THEN "finally"
    ELSE "closed"

\* the positions of alerts_ws between lst.append(websocket) and lst.remove
Registered == {"load", "drain_send", "drain_mark", "idle", "idle_sleep", "finally"}

\* ------------------------------------------------------------- initial state
\* began_after is history, not a local: the requests that had been answered
\* when this one arrived
IngInit ==
    [pc |-> "new", puuid |-> NoPuuid, title |-> <<>>, createdAt |-> 0, id |-> 0,
     sockets |-> <<>>, k |-> 1, delivered_any |-> FALSE, status |-> "none",
     began_after |-> {}]

\* mark_failed is history, not a local: a db_mark_delivered of this handler's
\* drain raised into "except Exception: pass"
ChInit ==
    [pc |-> "new", puuid |-> NoPuuid, pending |-> <<>>, idx |-> 1, exit |-> "none",
     mark_failed |-> FALSE]

Init ==
    /\ now = 0
    /\ notifications = <<>>
    /\ active_connections = [p \in {} |-> <<>>]
    /\ connections_lock = Free
    /\ ing = [i \in Ingests |-> IngInit]
    /\ ch = [w \in Chans |-> ChInit]
    /\ inbox = [w \in Chans |-> <<>>]

\* requests and connections issued so far
Started ==
    Cardinality({i \in Ingests : ing[i].pc # "new"})
      + Cardinality({w \in Chans : ch[w].pc # "new"})

\* ------------------------------------------------------------- clock
Tick ==
    /\ now < MaxTime
    /\ now' = now + 1
    /\ UNCHANGED <<notifications, active_connections, connections_lock, ing, ch, inbox>>

\* ------------------------------------------------------------- receive_notification
\* lines 162-173: read the request, reject a missing puuid, ignore a title
\* without the glyph; request i is the i-th one to arrive
Receive(i) ==
    /\ ing[i].pc = "new"
    /\ Started < MaxTasks
    /\ \A j \in Ingests : j < i => ing[j].pc # "new"
    /\ \E p \in Puuids \cup {NoPuuid}, t \in Titles :
         ing' = [ing EXCEPT ![i] =
                   [@ EXCEPT !.puuid = p, !.title = t,
                             !.began_after = {j \in Ingests : ing[j].pc = "done"},
                             !.pc = IF p = NoPuuid \/ ~HasMarker(t) THEN "done" ELSE "lookup",
                             !.status = IF p = NoPuuid THEN "missing_puuid"
                                        ELSE IF ~HasMarker(t) THEN "ignored"
                                        ELSE "none"]]
    /\ UNCHANGED <<now, notifications, active_connections, connections_lock, ch, inbox>>

\* lines 175-200: look the user up, build the payload and the document
LookupUser(i) ==
    /\ ing[i].pc = "lookup"
    /\ ing' = [ing EXCEPT ![i] =
                 IF FindUser(ing[i].puuid)
                 THEN [@ EXCEPT !.pc = AfterLookup(TRUE), !.createdAt = now]
                 ELSE [@ EXCEPT !.pc = AfterLookup(FALSE), !.status = "not_found"]]
    /\ UNCHANGED <<now, notifications, active_connections, connections_lock, ch, inbox>>

\* line 201: await db_insert_notification(doc); a storage error propagates
InsertNotification(i) ==
    /\ ing[i].pc = "insert"
    /\ \E ok \in BOOLEAN :
         /\ notifications' =
              IF ok THEN InsertOne(notifications,
                                   NewDoc(ing[i].puuid,
                                          Payload(ing[i].puuid, ing[i].title),
                                          ing[i].createdAt))
              ELSE notifications
         /\ ing' = [ing EXCEPT ![i] =
                      [@ EXCEPT !.pc = AfterInsert(ok),
                                !.id = IF ok THEN Len(notifications) + 1 ELSE 0,
                                !.status = IF ok THEN "none" ELSE "storage_error"]]
    /\ UNCHANGED <<now, active_connections, connections_lock, ch, inbox>>

\* lines 204-208: under the lock copy the list; then "if sockets:"
SnapshotCopy(i) ==
    /\ ing[i].pc = "snapshot"
    /\ connections_lock = Free
    /\ connections_lock' = LockAfterBlock(<<"ingest", i>>)
    /\ LET sockets == Snapshot(active_connections, ing[i].puuid)
       IN  ing' = [ing EXCEPT ![i] =
                     [@ EXCEPT !.sockets = sockets, !.k = 1, !.delivered_any = FALSE,
                               !.pc = AfterSends(sockets, 1, FALSE),
                               !.status = IF sockets = <<>> THEN "saved" ELSE "none"]]
    /\ UNCHANGED <<now, notifications, active_connections, ch, inbox>>

\* lines 209-215: one iteration of the for loop; a failed send is swallowed
LiveSend(i) ==
    /\ ing[i].pc = "send"
    /\ \E ok \in BOOLEAN :
         LET w == ing[i].sockets[ing[i].k]
             any == ing[i].delivered_any \/ ok
             next == AfterSends(ing[i].sockets, ing[i].k + 1, any)
         IN  /\ inbox' = IF ok THEN [inbox EXCEPT ![w] = Append(@, [id |-> ing[i].id, via |-> "live"])]
                         ELSE inbox
             /\ ing' = [ing EXCEPT ![i] =
                          [@ EXCEPT !.k = @ + 1, !.delivered_any = any, !.pc = next,
                                    !.status = IF next = "done" THEN "saved" ELSE "none"]]
    /\ UNCHANGED <<now, notifications, active_connections, connections_lock, ch>>

\* lines 216-218: await db_mark_delivered(inserted_id), then return "saved"
LiveMark(i) ==
    /\ ing[i].pc = "mark"
    /\ \E ok \in BOOLEAN :
         /\ notifications' = IF ok THEN MarkDelivered(notifications, ing[i].id, now)
                             ELSE notifications
         /\ ing' = [ing EXCEPT ![i] =
                      [@ EXCEPT !.pc = "done", !.status = AfterMark(ok)]]
    /\ UNCHANGED <<now, active_connections, connections_lock, ch, inbox>>

\* ------------------------------------------------------------- alerts_ws
\* a client opens /alerts/{puuid}; connection w is the w-th one opened
Connect(w) ==
    /\ ch[w].pc = "new"
    /\ Started < MaxTasks
    /\ \A v \in Chans : v < w => ch[v].pc # "new"
    /\ \E p \in Puuids :
         ch' = [ch EXCEPT ![w] = [@ EXCEPT !.puuid = p, !.pc = "validate"]]
    /\ UNCHANGED <<now, notifications, active_connections, connections_lock, ing, inbox>>

\* lines 226-231: unknown puuid: close(code=4000) and return; else accept
Validate(w) ==
    /\ ch[w].pc = "validate"
    /\ ch' = [ch EXCEPT ![w] =
                IF FindUser(ch[w].puuid)
                THEN [@ EXCEPT !.pc = AfterValidate(TRUE)]
                ELSE [@ EXCEPT !.pc = AfterValidate(FALSE), !.exit = "refused_4000"]]
    /\ UNCHANGED <<now, notifications, active_connections, connections_lock, ing, inbox>>

\* lines 231-234: accept returns; under the lock setdefault and append
Register(w) ==
    /\ ch[w].pc = "accept"
    /\ connections_lock = Free
    /\ connections_lock' = LockAfterBlock(<<"ws", w>>)
    /\ active_connections' = RegisterConn(active_connections, ch[w].puuid, w)
    /\ ch' = [ch EXCEPT ![w].pc = "load"]
    /\ UNCHANGED <<now, notifications, ing, inbox>>

\* line 238: pending = await db_find_undelivered(puuid); a storage error
\* leaves the try block through finally
LoadBacklog(w) ==
    /\ ch[w].pc = "load"
    /\ \/ \E pending \in FindUndelivered(notifications, ch[w].puuid) :
            ch' = [ch EXCEPT ![w] =
                     [@ EXCEPT !.pending = pending, !.idx = 1,
                               !.pc = AfterDrainStep(pending, 1)]]
       \/ ch' = [ch EXCEPT ![w] =
                   [@ EXCEPT !.pc = OnException("load"), !.exit = "storage_error"]]
    /\ UNCHANGED <<now, notifications, active_connections, connections_lock, ing, inbox>>

\* line 241: await websocket.send_json(notif["notification"]); a failure is
\* swallowed by "except Exception: pass" and the loop goes on
DrainSend(w) ==
    /\ ch[w].pc = "drain_send"
    /\ \E ok \in BOOLEAN :
         /\ inbox' = IF ok THEN [inbox EXCEPT ![w] =
                                   Append(@, [id |-> ch[w].pending[ch[w].idx], via |-> "drain"])]
                     ELSE inbox
         /\ ch' = [ch EXCEPT ![w] =
                     IF ok THEN [@ EXCEPT !.pc = "drain_mark"]
                     ELSE [@ EXCEPT !.idx = OnDrainSendError(ch[w].pending, ch[w].idx).idx,
                                    !.pc = OnDrainSendError(ch[w].pending, ch[w].idx).pc]]
    /\ UNCHANGED <<now, notifications, active_connections, connections_lock, ing>>

\* line 242: await db_mark_delivered(notif["_id"]); a failure is swallowed too
DrainMark(w) ==
    /\ ch[w].pc = "drain_mark"
    /\ \E ok \in BOOLEAN :
         /\ notifications' = IF ok THEN MarkDelivered(notifications, ch[w].pending[ch[w].idx], now)
                             ELSE notifications
         /\ ch' = [ch EXCEPT ![w] =
                     [@ EXCEPT !.idx = @ + 1,
                               !.mark_failed = @ \/ ~ok,
                               !.pc = AfterDrainStep(ch[w].pending, ch[w].idx + 1)]]
    /\ UNCHANGED <<now, active_connections, connections_lock, ing, inbox>>

\* lines 247-253: await websocket.receive_text(): text is ignored,
\* WebSocketDisconnect breaks the loop, any other Exception sleeps
IdleReceive(w) ==
    /\ ch[w].pc = "idle"
    /\ \E outcome \in {"text", "disconnect", "error"} :
         ch' = [ch EXCEPT ![w] =
                  CASE outcome = "text" -> @
                    [] outcome = "disconnect" -> [@ EXCEPT !.pc = "finally", !.exit = "disconnect"]
                    [] outcome = "error" -> [@ EXCEPT !.pc = "idle_sleep"]]
    /\ UNCHANGED <<now, notifications, active_connections, connections_lock, ing, inbox>>

\* line 253: await asyncio.sleep(0.1), then the while loop goes round
IdleSleep(w) ==
    /\ ch[w].pc = "idle_sleep"
    /\ ch' = [ch EXCEPT ![w].pc = "idle"]
    /\ UNCHANGED <<now, notifications, active_connections, connections_lock, ing, inbox>>

\* The handler task is cancelled (server shutdown, transport teardown) while
\* suspended at an await: CancelledError is no Exception, so no except
\* clause of the handler catches it
Abort(w) ==
    /\ ch[w].pc \in {"validate", "accept", "load", "drain_send", "drain_mark", "idle", "idle_sleep"}
    /\ ch' = [ch EXCEPT ![w] = [@ EXCEPT !.pc = OnException(ch[w].pc), !.exit = "aborted"]]
    /\ UNCHANGED <<now, notifications, active_connections, connections_lock, ing, inbox>>

\* lines 254-260: finally: under the lock remove the websocket and pop an
\* empty list
Deregister(w) ==
    /\ ch[w].pc = "finally"
    /\ connections_lock = Free
    /\ connections_lock' = LockAfterBlock(<<"ws", w>>)
    /\ active_connections' = DeregisterConn(active_connections, ch[w].puuid, w)
    /\ ch' = [ch EXCEPT ![w].pc = "closed"]
    /\ UNCHANGED <<now, notifications, ing, inbox>>

\* ------------------------------------------------------------- specification
IngestStep(i) ==
    \/ Receive(i)
    \/ LookupUser(i)
    \/ InsertNotification(i)
    \/ SnapshotCopy(i)
    \/ LiveSend(i)
    \/ LiveMark(i)

ChannelStep(w) ==
    \/ Connect(w)
    \/ Validate(w)
    \/ Register(w)
    \/ LoadBacklog(w)
    \/ DrainSend(w)
    \/ DrainMark(w)
    \/ IdleReceive(w)
    \/ IdleSleep(w)
    \/ Abort(w)
    \/ Deregister(w)

Next ==
    \/ Tick
    \/ \E i \in Ingests : IngestStep(i)
    \/ \E w \in Chans : ChannelStep(w)

Spec == Init /\ [][Next]_vars

\* ------------------------------------------------------------- properties
\* the ids a websocket was sent by one path ("live" or "drain"), in order
RECURSIVE IdsVia(_, _)
IdsVia(box, via) ==
    IF box = <<>> THEN <<>>
    ELSE IF Head(box).via = via THEN <<Head(box).id>> \o IdsVia(Tail(box), via)
    ELSE IdsVia(Tail(box), via)

Persisted(id) == id \in 1..Len(notifications)

\* the ingest answered "saved" and none of its sends succeeded
NoLiveSuccess(i) ==
    ing[i].pc = "done" /\ ing[i].status = "saved" /\ ~ing[i].delivered_any

\* C1, the parts. An ingest that has attempted a send, or is about
\* to, has its document in the collection; the step that appends the document
\* appends it with delivered = False before the ingest's first send; an ingest
\* whose insert failed has ended in an error without attempting a send.
C1_SendImpliesPersisted ==
    \A i \in Ingests :
        /\ (ing[i].pc \in {"send", "mark"} \/ ing[i].k > 1) =>
              /\ Persisted(ing[i].id)
              /\ notifications[ing[i].id].puuid = ing[i].puuid
        /\ (ing[i].status = "storage_error" /\ ing[i].id = 0) =>
              /\ ing[i].pc = "done"
              /\ ing[i].k = 1
              /\ \A w \in Chans : \A n \in 1..Len(inbox[w]) : inbox[w][n].id # 0

C1_AppendStep ==
    \A i \in Ingests :
        (ing[i].pc = "insert" /\ ing'[i].id # 0) =>
            /\ Len(notifications') = Len(notifications) + 1
            /\ ing'[i].id = Len(notifications')
            /\ ~notifications'[ing'[i].id].delivered
            /\ ing'[i].k = 1
            /\ inbox' = inbox

\* C1: write-then-notify, as one formula: in every state a send implies the
\* persisted document and a failed insert implies no send, and every append
\* step appends an undelivered document before the first send.
C1_WriteThenNotify == []C1_SendImpliesPersisted /\ [][C1_AppendStep]_vars

\* C1 witness: one ingest has sent its persisted document to a socket, and
\* another ingest has failed on its insert
C1_Witness ==
    \E i, j \in Ingests :
        /\ ing[i].k > 1 /\ Persisted(ing[i].id)
        /\ ing[j].status = "storage_error" /\ ing[j].id = 0 /\ ing[j].pc = "done"

\* C2: an ingest that returned "saved" after a snapshot with sockets and at
\* least one successful send has left its document delivered, with deliveredAt set.
C2_SavedAfterSuccessIsDelivered ==
    \A i \in Ingests :
        (/\ ing[i].pc = "done"
         /\ ing[i].status = "saved"
         /\ ing[i].sockets # <<>>
         /\ ing[i].delivered_any) =>
            /\ Persisted(ing[i].id)
            /\ notifications[ing[i].id].delivered
            /\ notifications[ing[i].id].deliveredAt # Unset

\* C2 witness: a snapshot of two sockets, one send failed and one succeeded,
\* the ingest returned "saved"
C2_Witness ==
    \E i \in Ingests :
        /\ ing[i].pc = "done" /\ ing[i].status = "saved"
        /\ Len(ing[i].sockets) = 2
        /\ ing[i].delivered_any
        /\ \E w \in Range(ing[i].sockets) : ing[i].id \notin Range(IdsVia(inbox[w], "live"))
        /\ notifications[ing[i].id].delivered

\* C3, the parts: after an ingest without a successful send (a) its document is
\* delivered only if a drain has sent it to a socket; (b) a handler of the
\* same identifier whose backlog load succeeds while the document is still
\* undelivered gets it in its pending list; (c) a handler that reaches its
\* keep-alive loop has attempted a send for every document of its list.
C3_OnlyDrainDelivers ==
    \A i \in Ingests :
        (NoLiveSuccess(i) /\ notifications[ing[i].id].delivered) =>
            \E w \in Chans :
                /\ ch[w].puuid = ing[i].puuid
                /\ ing[i].id \in Range(IdsVia(inbox[w], "drain"))

C3_DrainAttemptsAll ==
    \A w \in Chans :
        ch[w].pc \in {"idle", "idle_sleep"} => ch[w].idx = Len(ch[w].pending) + 1

C3_LoadStep ==
    \A i \in Ingests : \A w \in Chans :
        (/\ NoLiveSuccess(i)
         /\ ~notifications[ing[i].id].delivered
         /\ ch[w].puuid = ing[i].puuid
         /\ ch[w].pc = "load"
         /\ ch'[w].pc \in {"drain_send", "idle"}) =>
            ing[i].id \in Range(ch'[w].pending)

IngestOf(id) == CHOOSE i \in Ingests : ing[i].id = id

StrictlyAscending(s) ==
    \A j, k \in 1..Len(s) :
        j < k => notifications[s[j]].createdAt < notifications[s[k]].createdAt

\* the drain of w has ended: the handler is in its keep-alive loop
DrainEnded(w) == ch[w].pc \in {"idle", "idle_sleep"}

\* every send of w's drain succeeded
DrainSendsOk(w) == Len(IdsVia(inbox[w], "drain")) = Len(ch[w].pending)

C4_DrainResult ==
    \A w \in Chans :
        (/\ DrainEnded(w)
         /\ StrictlyAscending(ch[w].pending)
         /\ DrainSendsOk(w)
         /\ ~ch[w].mark_failed) =>
            /\ IdsVia(inbox[w], "drain") = ch[w].pending
            /\ StrictlyAscending(IdsVia(inbox[w], "drain"))
            /\ \A id \in Range(ch[w].pending) :
                 /\ notifications[id].delivered
                 /\ notifications[id].deliveredAt # Unset

C4_LoadStep ==
    \A w \in Chans :
        (ch[w].pc = "load" /\ ch'[w].pc \in {"drain_send", "idle"}) =>
            LET got == ch'[w].pending
            IN  /\ Range(got) = {id \in 1..Len(notifications) :
                                   /\ notifications[id].puuid = ch[w].puuid
                                   /\ ~notifications[id].delivered}
                /\ \A j, k \in 1..Len(got) : j < k => got[j] # got[k]
                /\ \A j, k \in 1..Len(got) :
                     j < k => notifications[got[j]].createdAt <= notifications[got[k]].createdAt

C5_DrainReplaysIngestionOrder ==
    \A w \in Chans :
        LET sent == IdsVia(inbox[w], "drain")
        IN  \A j, k \in 1..Len(sent) :
                j < k => IngestOf(sent[k]) \notin ing[IngestOf(sent[j])].began_after

\* C6, as a step: a delivered document is the same after the step
C6_DeliveredUnchanged ==
    \A id \in 1..Len(notifications) :
        notifications[id].delivered => notifications'[id] = notifications[id]

\* C6: db_mark_delivered on a document that is already delivered changes
\* nothing of it, deliveredAt included: no step changes a delivered document.
C6_MarkDeliveredIdempotent == [][C6_DeliveredUnchanged]_vars

\* C7: every document has deliveredAt set if and only if it is delivered.
C7_DeliveredAtIffDelivered ==
    \A id \in 1..Len(notifications) :
        notifications[id].delivered <=> notifications[id].deliveredAt # Unset

\* C7 witness: a delivered document and an undelivered one
C7_Witness ==
    \E a, b \in 1..Len(notifications) :
        /\ notifications[a].delivered /\ notifications[a].deliveredAt # Unset
        /\ ~notifications[b].delivered

\* C8: the registry maps only known identifiers, none of them to an empty
\* list; no websocket is listed twice; and a websocket is listed under an
\* identifier exactly when its handler, connected for that identifier, has
\* registered and not yet deregistered.
C8_RegistryExact ==
    /\ DOMAIN active_connections \subseteq Users
    /\ \A p \in DOMAIN active_connections :
         LET lst == active_connections[p]
         IN  /\ lst # <<>>
             /\ \A j, k \in 1..Len(lst) : j # k => lst[j] # lst[k]
    /\ \A w \in Chans : \A p \in Puuids :
         (p \in DOMAIN active_connections /\ w \in Range(active_connections[p]))
            <=> (ch[w].puuid = p /\ ch[w].pc \in Registered)

\* C8 witness: one handler has registered and deregistered, emptying its
\* identifier's list, while another identifier holds a registered websocket
C8_Witness ==
    \E v, w \in Chans :
        /\ ch[v].pc = "closed" /\ ch[v].exit = "disconnect"
        /\ ch[v].puuid \notin DOMAIN active_connections
        /\ ch[w].pc \in Registered
        /\ ch[w].puuid # ch[v].puuid
        /\ active_connections[ch[w].puuid] = <<w>>

InRegistry(conns, w) == \E p \in DOMAIN conns : w \in Range(conns[p])

\* C9, the parts: a handler that has ended is in no list of the registry, whatever ended
\* it; and a websocket leaves the registry only in the finally block of its
\* own handler, which ends the handler (so it is removed once).
C9_ClosedNotRegistered ==
    \A w \in Chans : ch[w].pc = "closed" => ~InRegistry(active_connections, w)

C9_RemovedByFinally ==
    \A w \in Chans :
        /\ (InRegistry(active_connections, w) /\ ~InRegistry(active_connections', w)) =>
              (ch[w].pc = "finally" /\ ch'[w].pc = "closed")
        /\ ch[w].pc = "closed" => ch'[w] = ch[w]

\* C9: every handler that has ended, on whatever exit path, is out of the
\* registry, and its websocket was removed by its own finally block, once.
C9_DeregisterOnEveryExit == []C9_ClosedNotRegistered /\ [][C9_RemovedByFinally]_vars

\* C9 witness: one registered handler ended by a storage error of the backlog
\* load, another by cancellation after its backlog load (during the drain or
\* the keep-alive loop), and neither is left in the registry
C9_Witness ==
    \E v, w \in Chans :
        /\ ch[v].pc = "closed" /\ ch[v].exit = "storage_error"
        /\ ch[w].pc = "closed" /\ ch[w].exit = "aborted" /\ ch[w].pending # <<>>
        /\ ~InRegistry(active_connections, v)
        /\ ~InRegistry(active_connections, w)

\* C10, as a step: after a read error the handler does not go back to
\* waiting for a message
C10_ErrorEndsIdleStep ==
    \A w \in Chans : ch[w].pc = "idle_sleep" => ch'[w].pc # "idle"

\* C10: a receive that fails with an error other than a disconnect ends the
\* idle phase: after it the handler does not wait for a message again.
C10_ReadErrorEndsIdle == [][C10_ErrorEndsIdleStep]_vars

\* C11: a handler connected for an identifier db.users does not know is never
\* in the registry, never loads or drains a backlog, was sent nothing and has
\* caused no mark; it waits for the lookup or has ended, refused with close
\* code 4000 (or cancelled while the lookup was awaited).
C11_UnknownIdentifierRefused ==
    \A w \in Chans :
        (ch[w].pc # "new" /\ ch[w].puuid \notin Users) =>
            /\ ch[w].pc \in {"validate", "closed"}
            /\ ch[w].pc = "closed" => ch[w].exit \in {"refused_4000", "aborted"}
            /\ ~InRegistry(active_connections, w)
            /\ ch[w].puuid \notin DOMAIN active_connections
            /\ ch[w].pending = <<>> /\ ch[w].idx = 1 /\ ~ch[w].mark_failed
            /\ inbox[w] = <<>>

\* C11 witness: a handler for the unknown identifier was refused with 4000
\* while another websocket is registered
C11_Witness ==
    \E v, w \in Chans :
        /\ ch[w].puuid = "ux" /\ ch[w].pc = "closed" /\ ch[w].exit = "refused_4000"
        /\ ch[v].pc \in Registered
        /\ InRegistry(active_connections, v)

\* the ingest was rejected: no puuid (400) or a puuid db.users does not know (404)
Rejected(i) == ing[i].status \in {"missing_puuid", "not_found"}

\* C12, the parts. A rejected ingest has ended with no document inserted, no
\* snapshot taken and no send attempted, and no document carries an
\* identifier db.users does not know; the step that rejects it changes nothing
\* but the ingest's own locals.
C12_RejectedInert ==
    /\ \A i \in Ingests :
         /\ (ing[i].pc # "new" /\ ing[i].puuid = NoPuuid) => ing[i].status = "missing_puuid"
         /\ (ing[i].pc \notin {"new", "lookup"} /\ ing[i].puuid \in Puuids \ Users
               /\ \E n \in 1..Len(ing[i].title) : ing[i].title[n] \in MarkerWords) =>
                ing[i].status = "not_found"
         /\ Rejected(i) =>
              /\ ing[i].pc = "done"
              /\ ing[i].id = 0
              /\ ing[i].sockets = <<>> /\ ing[i].k = 1 /\ ~ing[i].delivered_any
    /\ \A id \in 1..Len(notifications) : notifications[id].puuid \in Users

C12_RejectStep ==
    \A i \in Ingests :
        (ing'[i] # ing[i] /\ (ing'[i].status \in {"missing_puuid", "not_found"})) =>
            /\ notifications' = notifications
            /\ inbox' = inbox
            /\ active_connections' = active_connections
            /\ connections_lock' = connections_lock

\* C12: an ingest without an identifier, or with a marker title and an
\* identifier unknown to db.users, is rejected and creates no document,
\* attempts no send and leaves the registry as it was.
C12_RejectedIngestChangesNothing == []C12_RejectedInert /\ [][C12_RejectStep]_vars

\* C12 witness: one ingest rejected for its missing puuid and one for its
\* unknown puuid, while a websocket is registered
C12_Witness ==
    \E i, j \in Ingests : \E w \in Chans :
        /\ ing[i].status = "missing_puuid" /\ ing[i].pc = "done"
        /\ ing[j].status = "not_found" /\ ing[j].pc = "done" /\ ing[j].puuid = "ux"
        /\ InRegistry(active_connections, w)

\* the title holds no word with the rupee glyph
LacksMarker(title) == \A n \in 1..Len(title) : title[n] \notin MarkerWords

\* C13, the parts. An ingest that carries an identifier and a title without
\* the glyph has been answered "ignored", with no user lookup, no document, no
\* snapshot and no send; the step that ignores it changes nothing but the
\* ingest's own locals.
C13_IgnoredInert ==
    \A i \in Ingests :
        (ing[i].pc # "new" /\ ing[i].puuid \in Puuids /\ LacksMarker(ing[i].title)) =>
            /\ ing[i].status = "ignored"
            /\ ing[i].pc = "done"
            /\ ing[i].id = 0
            /\ ing[i].sockets = <<>> /\ ing[i].k = 1 /\ ~ing[i].delivered_any

C13_IgnoreStep ==
    \A i \in Ingests :
        (ing'[i] # ing[i] /\ ing'[i].puuid \in Puuids /\ LacksMarker(ing'[i].title)) =>
            /\ ing'[i].status = "ignored"
            /\ notifications' = notifications
            /\ inbox' = inbox
            /\ active_connections' = active_connections
            /\ connections_lock' = connections_lock

\* C13: an ingest with an identifier, known or not, whose title lacks the
\* glyph is answered "ignored": no document, no send, queue and registry
\* unchanged.
C13_UnmarkedTitleIgnored == []C13_IgnoredInert /\ [][C13_IgnoreStep]_vars

\* C13 witness: a title without the glyph was ignored for a known and for an
\* unknown identifier, with an undelivered document in the queue and a
\* websocket registered
C13_Witness ==
    \E i, j \in Ingests : \E w \in Chans :
        /\ ing[i].status = "ignored" /\ ing[i].puuid \in Users
        /\ ing[j].status = "ignored" /\ ing[j].puuid = "ux"
        /\ InRegistry(active_connections, w)

\* the title of scenario A, "john paid you ₹50", as its words
ScenarioATitle == <<"john", "paid", "you", "INR50">>

\* C14: ingesting the title "john paid you ₹50" for a known identifier stores
\* (and so broadcasts, the payload sent being the stored one) a payload title
\* of exactly "John Donated ₹50".
C14_ScenarioATitle ==
    \A i \in Ingests :
        (ing[i].id # 0 /\ ing[i].puuid \in Users /\ ing[i].title = ScenarioATitle) =>
            notifications[ing[i].id].notification.title = <<"John", "Donated", "INR50">>

\* how often websocket w was sent document id
RECURSIVE TimesSent(_, _)
TimesSent(box, id) ==
    IF box = <<>> THEN 0
    ELSE (IF Head(box).id = id THEN 1 ELSE 0) + TimesSent(Tail(box), id)

\* websocket w was sent the document of ingest i by its own backlog drain and
\* by the ingest's live dispatch
SentTwice(i, w) ==
    /\ ing[i].id # 0
    /\ ing[i].id \in Range(IdsVia(inbox[w], "drain"))
    /\ ing[i].id \in Range(IdsVia(inbox[w], "live"))

\* C15: the drain of a connecting websocket and the live dispatch of an ingest
\* of the same identifier can both send the same document to that websocket.
\* Whenever they have, the websocket was in the ingest's snapshot and the
\* document in the websocket's backlog, it was sent exactly twice, and once
\* the ingest has answered "saved" the document is delivered.
C15_DuplicateStillDelivered ==
    \A i \in Ingests : \A w \in Chans :
        SentTwice(i, w) =>
            /\ ch[w].puuid = ing[i].puuid
            /\ w \in Range(ing[i].sockets)
            /\ ing[i].id \in Range(ch[w].pending)
            /\ TimesSent(inbox[w], ing[i].id) = 2
            /\ (ing[i].pc = "done" /\ ing[i].status = "saved") =>
                   /\ notifications[ing[i].id].delivered
                   /\ notifications[ing[i].id].deliveredAt # Unset

\* C15 witness: one ingest and one websocket of the same identifier; the
\* websocket got the document from its drain and from the live dispatch, the
\* drain has ended, the ingest has answered "saved", the document is delivered
C15_Witness ==
    \E i \in Ingests : \E w \in Chans :
        /\ SentTwice(i, w)
        /\ ing[i].pc = "done" /\ ing[i].status = "saved"
        /\ ch[w].pc = "idle"
        /\ ing[i].sockets = <<w>>
        /\ ch[w].pending = <<ing[i].id>>
        /\ inbox[w] = <<[id |-> ing[i].id, via |-> "drain"], [id |-> ing[i].id, via |-> "live"]>>
        /\ notifications[ing[i].id].delivered

\* the places where a task is suspended in a storage call or in network I/O
IngestIO == {"lookup", "insert", "send", "mark"}
ChannelIO == {"validate", "accept", "load", "drain_send", "drain_mark", "idle", "idle_sleep"}

LiveTimes(w, id) == Len(SelectSeq(inbox[w], LAMBDA e : e.id = id /\ e.via = "live"))

\* C17: in a live dispatch every websocket of the snapshot gets exactly one
\* send attempt whether or not sends to the others failed (the loop is past
\* all of them when it ends, and none is reached twice), and a failed send
\* does not fail the ingest: with no successful send the answer is "saved",
\* and an error after the insert comes only from the mark that follows a
\* successful send.
C17_FanoutIsolation ==
    \A i \in Ingests :
        LET s == ing[i].sockets
        IN  /\ \A m, n \in 1..Len(s) : m # n => s[m] # s[n]
            /\ ing[i].pc = "send" => ing[i].k \in 1..Len(s)
            /\ (ing[i].pc \in {"mark", "done"} /\ s # <<>>) => ing[i].k = Len(s) + 1
            /\ \A n \in 1..Len(s) :
                   /\ LiveTimes(s[n], ing[i].id) <= 1
                   /\ n >= ing[i].k => LiveTimes(s[n], ing[i].id) = 0
            /\ (ing[i].pc = "done" /\ s # <<>> /\ ~ing[i].delivered_any) =>
                   ing[i].status = "saved"
            /\ (ing[i].status = "storage_error" /\ ing[i].id # 0) => ing[i].delivered_any

\* C17 witness: a snapshot of two websockets, the send to the first failed,
\* the second received the payload, the ingest answered "saved"
C17_Witness ==
    \E i \in Ingests :
        /\ ing[i].pc = "done" /\ ing[i].status = "saved"
        /\ Len(ing[i].sockets) = 2 /\ ing[i].k = 3
        /\ LiveTimes(ing[i].sockets[1], ing[i].id) = 0
        /\ LiveTimes(ing[i].sockets[2], ing[i].id) = 1
        /\ notifications[ing[i].id].delivered

\* a step in which the drain send of websocket w raised: w was in the send of
\* its drain, it moved on without a payload reaching it and without being
\* cancelled
DrainSendFailed(w) ==
    /\ ch[w].pc = "drain_send"
    /\ ch'[w] # ch[w]
    /\ ch'[w].exit = ch[w].exit
    /\ inbox'[w] = inbox[w]

\* C18, the parts. A failed drain send goes on with the next document of the
\* loaded list, or with the keep-alive loop after the last one, and marks
\* nothing; a handler in its keep-alive loop has attempted every document of
\* its list, each at most once.
C18_FailedSendStep ==
    \A w \in Chans :
        DrainSendFailed(w) =>
            /\ ch'[w].idx = ch[w].idx + 1
            /\ ch'[w].pc = IF ch[w].idx < Len(ch[w].pending) THEN "drain_send" ELSE "idle"
            /\ ch'[w].pending = ch[w].pending
            /\ notifications' = notifications
            /\ active_connections' = active_connections

C18_DrainCovers ==
    \A w \in Chans :
        /\ ch[w].pc \in {"drain_send", "drain_mark"} => ch[w].idx \in 1..Len(ch[w].pending)
        /\ DrainEnded(w) => ch[w].idx = Len(ch[w].pending) + 1
        /\ \A n \in 1..Len(ch[w].pending) :
               Len(SelectSeq(inbox[w], LAMBDA e : e.id = ch[w].pending[n] /\ e.via = "drain"))
                   <= (IF n < ch[w].idx \/ (n = ch[w].idx /\ ch[w].pc # "drain_send") THEN 1 ELSE 0)

\* C18: a failed send of the backlog drain neither aborts the drain nor ends
\* the handler: the drain attempts every remaining document of the loaded
\* list, the failed one is not marked delivered, and the handler then enters
\* its keep-alive loop.
C18_DrainSurvivesSendFailure == []C18_DrainCovers /\ [][C18_FailedSendStep]_vars

\* C18 witness: a drain over two documents whose first send failed and whose
\* second succeeded; the handler is in its keep-alive loop, still registered,
\* and the first document is still undelivered
C18_Witness ==
    \E w \in Chans :
        /\ ch[w].pc = "idle" /\ ch[w].exit = "none"
        /\ InRegistry(active_connections, w)
        /\ Len(ch[w].pending) = 2
        /\ IdsVia(inbox[w], "drain") = <<ch[w].pending[2]>>
        /\ ~notifications[ch[w].pending[1]].delivered
        /\ notifications[ch[w].pending[2]].delivered

\* the ingest i has stored a document and finished, the websocket w of the
\* same identifier has finished its drain and is still connected, and every
\* send of the ingest's live loop and of the websocket's drain succeeded
BothFinishedSendsOk(i, w) ==
    /\ ing[i].pc = "done" /\ ing[i].id # 0
    /\ ch[w].puuid = ing[i].puuid
    /\ DrainEnded(w) /\ ch[w].exit = "none"
    /\ \A n \in 1..Len(ing[i].sockets) : LiveTimes(ing[i].sockets[n], ing[i].id) = 1
    /\ DrainSendsOk(w)

\* some websocket of the ingest's identifier was sent its document
SentSomewhere(i) ==
    \E v \in Chans : ch[v].puuid = ing[i].puuid /\ TimesSent(inbox[v], ing[i].id) >= 1

C20_DeliveredImpliesSent ==
    \A id \in 1..Len(notifications) :
        LET received == \E w \in Chans :
                            /\ ch[w].puuid = notifications[id].puuid
                            /\ TimesSent(inbox[w], id) >= 1
        IN  /\ notifications[id].delivered => received
            /\ ~received => notifications[id].deliveredAt = Unset

\* C20 witness: one document was delivered by a drain and another by a live
\* dispatch, each received once by the websocket of its identifier
C20_Witness ==
    \E w \in Chans : \E a, b \in 1..Len(notifications) :
        /\ a # b
        /\ notifications[a].delivered /\ notifications[b].delivered
        /\ notifications[a].puuid = ch[w].puuid /\ notifications[b].puuid = ch[w].puuid
        /\ inbox[w] = <<[id |-> a, via |-> "drain"], [id |-> b, via |-> "live"]>>

====
